---- MODULE Spec2Model ----
(***************************************************************************)
(* Action-timing and interruption engine of EldenGymEnv (eldengym/env.py). *)
(* Time is counted in tenths of a second: every duration of the catalog is *)
(* a multiple of 0.1 s.  step() is modelled statement group by statement   *)
(* group (pc), the wall clock may advance between two groups, and every    *)
(* call on the game client may raise, which aborts the call in progress.   *)
(***************************************************************************)
EXTENDS Integers, Sequences, FiniteSets, TLC

\* ---------------------------------------------------------------- bounds
MaxTime == 8         \* the wall clock stops advancing MaxTime ticks after the last reset
MaxResets == 1       \* reset() is called at most MaxResets times
MaxFailures == 1     \* at most MaxFailures calls on the game client raise (Spec)
MaxFrames == 4       \* a frame stack receives at most MaxFrames frames between two resets
MaxHp == 3
MaxLost == 4                     \* HP lost in one episode, in total           \* HP values read from the game are 0..MaxHp

\* ------------------------------------------------------------- constants
None == -1                       \* Python None in an integer-valued field
ResetSleep == 250                \* sleep(20) + sleep(2) + sleep(2) + sleep(1), in tenths

IDLE == "idle"
EXECUTING == "executing"
COMPLETED == "completed"
INTERRUPTED == "interrupted"
ActionState == {IDLE, EXECUTING, COMPLETED, INTERRUPTED}

INSTANT == "instant"
MOVEMENT == "movement"
COMBAT == "combat"
DODGE == "dodge"
ActionType == {INSTANT, MOVEMENT, COMBAT, DODGE}

STARTUP == "startup"
ACTIVE == "active"
RECOVERY == "recovery"
AnimationPhase == {STARTUP, ACTIVE, RECOVERY, IDLE}

NoPhases == [k \in {} |-> 0]

\* Phases with the active time repeated as the recovery time
Phases_repeated(s, a, r) == [startup |-> s, active |-> a, recovery |-> a]

Phases(s, a, r) == [startup |-> s, active |-> a, recovery |-> r]

Def(n, t, d, i, p) == [name |-> n, type |-> t, duration |-> d, interruptible |-> i, phases |-> p]

\* _discrete_action_map: durations and phases in tenths of a second
action_map ==
  0 :> Def("no-op", INSTANT, 0, TRUE, NoPhases)
  @@ 1 :> Def("forward", MOVEMENT, 1, TRUE, NoPhases)
  @@ 2 :> Def("backward", MOVEMENT, 1, TRUE, NoPhases)
  @@ 3 :> Def("left", MOVEMENT, 1, TRUE, NoPhases)
  @@ 4 :> Def("right", MOVEMENT, 1, TRUE, NoPhases)
  @@ 5 :> Def("jump", DODGE, 8, FALSE, Phases(2, 3, 3))
  @@ 6 :> Def("dodge_forward", DODGE, 12, FALSE, Phases(1, 4, 7))
  @@ 7 :> Def("dodge_backward", DODGE, 12, FALSE, Phases(1, 4, 7))
  @@ 8 :> Def("dodge_left", DODGE, 12, FALSE, Phases(1, 4, 7))
  @@ 9 :> Def("dodge_right", DODGE, 12, FALSE, Phases(1, 4, 7))
  @@ 10 :> Def("interact", INSTANT, 5, TRUE, NoPhases)
  @@ 11 :> Def("attack", COMBAT, 15, FALSE, Phases(4, 3, 8))
  @@ 12 :> Def("use_item", COMBAT, 20, FALSE, Phases(5, 5, 10))
  @@ 13 :> Def("weapon_art", COMBAT, 25, FALSE, Phases(8, 7, 10))

\* _discrete_action_keybindings: the number of keys bound to each action name
action_keybindings ==
  [n \in {action_map[i].name : i \in DOMAIN action_map} |->
     CASE n = "no-op" -> 0
       [] n \in {"dodge_forward", "dodge_backward", "dodge_left", "dodge_right", "attack"} -> 2
       [] OTHER -> 1]

\* dict.get(key, default) on a phase breakdown
PhaseGet(phases, k, default) == IF k \in DOMAIN phases THEN phases[k] ELSE default

Min(a, b) == IF a <= b THEN a ELSE b

\* ----------------------------------------------------------------- state
VARIABLES
  stepping_strategy, observation_sampling, action_interruption_enabled,
  agent_step_interval, max_action_duration,
  current_action, action_start_time, action_state, action_queue,
  last_animation_id, current_animation_phase, last_step_time,
  now, game_speed, applied_speed,
  pc, action, current_time, start_wait, max_wait, current_animation, sent_keys, result,
  error, obs, resets, failures, fault_limit, action_map_arg,
  inner_obs, wrapper_result,
  num_stack, frames, dict_frames, stacked, dict_stacked, received, cleared,
  refund_player, prev_player_hp, info, hp_writes,
  attribute_ranges, observed_min, observed_max, normalized,
  hero_hp, refund_pending, hp_lost, hp_reported,
  rule_args, rule_result

config == <<stepping_strategy, observation_sampling, action_interruption_enabled,
            agent_step_interval, max_action_duration, fault_limit, action_map_arg>>
fields == <<current_action, action_start_time, action_state, action_queue,
            last_animation_id, current_animation_phase, last_step_time>>
world == <<now, game_speed, applied_speed>>
locals == <<action, current_time, start_wait, max_wait>>
\* current_animation: the local of _is_action_complete, the animation id read at
\* line 238 by the refresh that has just run, None when that refresh read none
\* the variables of the environment
env == <<config, fields, world, locals, current_animation, pc, sent_keys, result, error,
         obs, resets, failures>>
\* inner_obs: what the wrapped environment returned to the wrapper last;
\* wrapper_result: how the last call on the wrapper ended
wrapped == <<inner_obs, wrapper_result>>
\* FrameStack.frames and its output, DictFrameStack.frames and its output;
\* received: the frames passed to observation() since the buffers were cleared;
\* cleared: the frames that were in the buffers when a reset cleared them
stacks == <<num_stack, frames, dict_frames, stacked, dict_stacked, received, cleared>>
\* HPRefundWrapper: its fields, the info dict of the last step and the values
\* written to the player's HP during it
refund == <<refund_player, prev_player_hp, info, hp_writes>>
\* NormalizeMemoryAttributes: its fields and its output
normalize == <<attribute_ranges, observed_min, observed_max, normalized>>
\* the game around HPRefundWrapper: the player's HP in memory, whether a refund
\* written to it has yet to take effect, the HP the player has lost and the sum of
\* the player_damage_taken values the steps have returned, both since the reset
game == <<hero_hp, refund_pending, hp_lost, hp_reported>>
wrappers == <<wrapped, stacks, refund, normalize, game>>
\* the arguments and the result of a call of the interruption rule on its own
rule == <<rule_args, rule_result>>
vars == <<env, wrappers, rule>>

\* ------------------------------------------------- configuration domains
Strategies == {"pause", "continuous", "adaptive"}
Samplings == {"immediate", "completion", "smart"}
AgentIntervals == {1, 5}         \* agent_frequency 10 Hz (default) and 2 Hz
MaxActionDurations == {5, 30}    \* max_action_duration 0.5 s and 3.0 s (default)
AnimIds == {1, 2}                \* values client.player_animation_id returns
StepActions == {0, 1, 5, 11, 14}   \* action ids passed to step(); 14 is not registered

\* values of the action_map argument of __init__: None, written as the empty
\* catalog, and the built-in catalog with the recovery of Attack cut to 0.7 s, so
\* that its phases sum to 1.4 s against a duration of 1.5 s
NoCatalog == [k \in {} |-> 0]
MismatchedCatalog == [action_map EXCEPT ![11].phases.recovery = 7]
CatalogArgs == {NoCatalog, MismatchedCatalog}

NoObs == [action_state |-> "none", current_action |-> None, action_progress |-> 0,
          action_queue_length |-> 0, animation_phase |-> "none", can_interrupt |-> TRUE]

\* ------------------------------------------------------ helper functions
\* phase_at with the phase boundaries counted to the earlier phase
phase_at_inclusive(action_data, elapsed) ==
  IF DOMAIN action_data.phases = {} THEN IDLE
  ELSE IF elapsed <= action_data.phases.startup THEN STARTUP
  ELSE IF elapsed <= action_data.phases.startup + action_data.phases.active THEN ACTIVE
  ELSE IF elapsed < action_data.duration THEN RECOVERY
  ELSE IDLE

\* phase_at holding the Recovery phase after the duration has elapsed
phase_at_no_idle(action_data, elapsed) ==
  IF DOMAIN action_data.phases = {} THEN IDLE
  ELSE IF elapsed < PhaseGet(action_data.phases, "startup", 0) THEN STARTUP
  ELSE IF elapsed < PhaseGet(action_data.phases, "startup", 0)
                    + PhaseGet(action_data.phases, "active", 0) THEN ACTIVE
  ELSE RECOVERY

\* _get_current_animation_phase, the part after the executing check
phase_at(action_data, elapsed) ==
  IF DOMAIN action_data.phases = {} THEN IDLE
  ELSE IF elapsed < PhaseGet(action_data.phases, "startup", 0) THEN STARTUP
  ELSE IF elapsed < PhaseGet(action_data.phases, "startup", 0)
                    + PhaseGet(action_data.phases, "active", 0) THEN ACTIVE
  ELSE IF elapsed < action_data.duration THEN RECOVERY
  ELSE IDLE

get_current_animation_phase ==
  IF action_state # EXECUTING \/ current_action = None THEN IDLE
  ELSE phase_at(action_map[current_action], now - action_start_time)

\* interrupt_rule protecting the Startup phase only
interrupt_rule_startup_only(current_type, new_type, current_phase) ==
  IF current_phase = STARTUP THEN FALSE
  ELSE IF current_phase = RECOVERY /\ current_type = MOVEMENT THEN TRUE
  ELSE IF current_phase = RECOVERY /\ current_type \in {DODGE, COMBAT}
       THEN new_type \in {DODGE, COMBAT}
  ELSE TRUE

\* interrupt_rule letting every request cut a recovery
interrupt_rule_open_recovery(current_type, new_type, current_phase) ==
  IF current_phase \in {STARTUP, ACTIVE} THEN FALSE
  ELSE TRUE

\* _can_interrupt_action, the decision once the action is known to be executing
interrupt_rule(current_type, new_type, current_phase) ==
  IF current_phase \in {STARTUP, ACTIVE} THEN FALSE
  ELSE IF current_phase = RECOVERY /\ current_type = MOVEMENT THEN TRUE
  ELSE IF current_phase = RECOVERY /\ current_type \in {DODGE, COMBAT}
       THEN new_type \in {DODGE, COMBAT}
  ELSE TRUE

\* can_interrupt_action accepting every request
can_interrupt_action_unchecked(new_action_id) == TRUE

\* _can_interrupt_action
can_interrupt_action(new_action_id) ==
  IF action_state # EXECUTING THEN TRUE
  ELSE interrupt_rule(action_map[current_action].type,
                      action_map[new_action_id].type,
                      get_current_animation_phase)

\* _is_action_complete reads client.player_animation_id in this case only
reads_animation ==
  /\ action_state = EXECUTING
  /\ now - action_start_time < action_map[current_action].duration
  /\ action_map[current_action].type = COMBAT

\* is_action_complete with a strict comparison of the elapsed time
is_action_complete_strict(animation) ==
  IF action_state # EXECUTING THEN TRUE
  ELSE IF now - action_start_time > action_map[current_action].duration THEN TRUE
  ELSE IF action_map[current_action].type = COMBAT
          /\ animation # last_animation_id THEN TRUE
  ELSE FALSE

\* is_action_complete taking a change of animation as the end of any action
is_action_complete_any_type(animation) ==
  IF action_state # EXECUTING THEN TRUE
  ELSE IF now - action_start_time >= action_map[current_action].duration THEN TRUE
  ELSE IF animation # last_animation_id THEN TRUE
  ELSE FALSE

\* _is_action_complete; animation is the value client.player_animation_id
\* returns when it is read
is_action_complete(animation) ==
  IF action_state # EXECUTING THEN TRUE
  ELSE IF now - action_start_time >= action_map[current_action].duration THEN TRUE
  ELSE IF action_map[current_action].type = COMBAT
          /\ animation # last_animation_id THEN TRUE
  ELSE FALSE

\* _update_action_state moves an executing, complete action to COMPLETED
completes(animation) ==
  action_state = EXECUTING /\ is_action_complete(animation)

\* stepping_speed slowing the game under 'pause' whatever the lifecycle state is
stepping_speed_pause_always ==
  IF stepping_strategy = "pause" THEN 1
  ELSE IF stepping_strategy = "continuous" THEN 10
  ELSE None

\* _handle_stepping_strategy: the factor passed to set_game_speed, None when no call is made
stepping_speed ==
  IF stepping_strategy = "pause"
  THEN (IF action_state = EXECUTING THEN 1 ELSE 10)
  ELSE IF stepping_strategy = "continuous" THEN 10
  ELSE IF stepping_strategy = "adaptive"
  THEN (IF action_state = EXECUTING
        THEN (IF get_current_animation_phase = STARTUP THEN 5
              ELSE IF get_current_animation_phase = ACTIVE THEN 10
              ELSE IF get_current_animation_phase = RECOVERY THEN 7
              ELSE None)
        ELSE 10)
  ELSE None

\* should_sample waiting for more than the agent interval
should_sample_late(sampling, state, last, t, interval) ==
  IF sampling = "immediate" THEN TRUE
  ELSE IF sampling = "completion" THEN state \in {COMPLETED, IDLE}
  ELSE IF sampling = "smart"
  THEN \/ state \in {COMPLETED, IDLE}
       \/ last = None
       \/ t - last > interval
  ELSE FALSE

\* _should_sample_observation as a function of what it reads: the sampling
\* strategy, the lifecycle state, _last_step_time, time() and the agent interval
should_sample(sampling, state, last, t, interval) ==
  IF sampling = "immediate" THEN TRUE
  ELSE IF sampling = "completion" THEN state \in {COMPLETED, IDLE}
  ELSE IF sampling = "smart"
  THEN \/ state \in {COMPLETED, IDLE}
       \/ last = None
       \/ t - last >= interval
  ELSE FALSE

\* _should_sample_observation
should_sample_observation ==
  should_sample(observation_sampling, action_state, last_step_time, now,
                agent_step_interval)

\* _get_observation divides by the duration of the executing action
observation_divides_by_zero ==
  /\ action_state = EXECUTING /\ current_action # None
  /\ action_map[current_action].duration = 0

\* get_observation reporting a completed action as fully progressed
get_observation_completed_full ==
  [action_state |-> action_state,
   current_action |-> current_action,
   action_progress |->
     IF action_state = EXECUTING /\ current_action # None
     THEN Min(((now - action_start_time) * 1000) \div action_map[current_action].duration, 1000)
     ELSE IF action_state = COMPLETED THEN 1000 ELSE 0,
   action_queue_length |-> Len(action_queue),
   animation_phase |-> current_animation_phase,
   can_interrupt |-> IF current_action # None THEN can_interrupt_action(0) ELSE TRUE]

\* _get_observation: the execution-state fields; action_progress in thousandths
get_observation ==
  [action_state |-> action_state,
   current_action |-> current_action,
   action_progress |->
     IF action_state = EXECUTING /\ current_action # None
     THEN Min(((now - action_start_time) * 1000) \div action_map[current_action].duration, 1000)
     ELSE 0,
   action_queue_length |-> Len(action_queue),
   animation_phase |-> current_animation_phase,
   can_interrupt |-> IF current_action # None THEN can_interrupt_action(0) ELSE TRUE]

\* ---------------------------------------------------------------- wrappers
\* a frame is the sequence of its channels, here one channel per frame
Frames == {<<1>>, <<2>>}
NumStacks == {1, 2, 3}            \* values of the num_stack argument
HpValues == 0..MaxHp
Attrs == {"HeroHp", "HeroMaxHp"}  \* the keys of an observation other than the frame

\* observations the wrapped environment returns: a frame and memory attributes
InnerObs == [frame : Frames, HeroHp : HpValues, HeroMaxHp : {0, MaxHp}]
NoInnerObs == [frame |-> <<>>, HeroHp |-> 0, HeroMaxHp |-> 0]

\* deque_append on a deque without maxlen
deque_append_unbounded(d, x, maxlen) == Append(d, x)

\* collections.deque(maxlen=maxlen).append: a full deque drops its oldest element
deque_append(d, x, maxlen) ==
  IF Len(d) < maxlen THEN Append(d, x) ELSE Append(Tail(d), x)

RECURSIVE fill(_, _, _)
\* observation: while len(self.frames) < self.num_stack: self.frames.append(frame)
fill(d, x, n) ==
  IF Len(d) < n THEN fill(deque_append(d, x, n), x, n) ELSE d

RECURSIVE concatenate(_)
\* np.concatenate(list(self.frames), axis=-1)
concatenate(list) ==
  IF list = <<>> THEN <<>> ELSE Head(list) \o concatenate(Tail(list))

\* FrameStack.observation: the buffer after the call; the output is its concatenation
FrameStack_observation(buffer, frame) ==
  fill(deque_append(buffer, frame, num_stack), frame, num_stack)

\* DictFrameStack.observation: the buffer after the call
DictFrameStack_observation(buffer, o) ==
  fill(deque_append(buffer, o.frame, num_stack), o.frame, num_stack)

\* DictFrameStack.observation: the copy of the observation with the stacked frame
DictFrameStack_output(buffer, o) ==
  [o EXCEPT !.frame = concatenate(DictFrameStack_observation(buffer, o))]

\* SiphonClient.set_attribute(attributeName, value): a call with another number
\* of arguments raises TypeError before any request is built
set_attribute(args) == IF Len(args) = 2 THEN "sent" ELSE "TypeError"

\* HPRefundWrapper.step, line 356: the arguments of the call that refunds the player
refund_call(max_hp) == <<"HeroHp", max_hp, "int">>

\* HPRefundWrapper.step, lines 346-349
player_damage(o) ==
  IF prev_player_hp # None
  THEN (IF prev_player_hp - o.HeroHp > 0 THEN prev_player_hp - o.HeroHp ELSE 0)
  ELSE 0

NoInfo == [player_damage_taken |-> None]

\* attribute_ranges: none supplied, or a range for HeroHp that some values of
\* the attribute lie outside of
NoRanges == [k \in {} |-> 0]
RangeArgs == {NoRanges, [k \in {"HeroHp"} |-> <<1, MaxHp - 1>>]}

Max(a, b) == IF a >= b THEN a ELSE b

\* NormalizeMemoryAttributes.observation, lines 193-198: observed_min and
\* observed_max once every key of the observation o without a supplied range was
\* tracked
observed_min_after(o) ==
  [k \in Attrs \ DOMAIN attribute_ranges |->
     IF k \in DOMAIN observed_min THEN Min(observed_min[k], o[k]) ELSE o[k]]

observed_max_after(o) ==
  [k \in Attrs \ DOMAIN attribute_ranges |->
     IF k \in DOMAIN observed_max THEN Max(observed_max[k], o[k]) ELSE o[k]]

\* lines 189-201: the range used for key
min_val(key, o) ==
  IF key \in DOMAIN attribute_ranges THEN attribute_ranges[key][1]
  ELSE observed_min_after(o)[key]

max_val(key, o) ==
  IF key \in DOMAIN attribute_ranges THEN attribute_ranges[key][2]
  ELSE observed_max_after(o)[key]

\* lines 204-207: the normalized value of key, in thousandths
normalized_value(key, o) ==
  IF max_val(key, o) > min_val(key, o)
  THEN ((o[key] - min_val(key, o)) * 1000) \div (max_val(key, o) - min_val(key, o))
  ELSE 0

\* ------------------------------------------------------------------ Init
\* __init__: the action execution tracking fields
InitFields ==
  /\ current_action = None
  /\ action_start_time = None
  /\ action_state = IDLE
  /\ action_queue = <<>>
  /\ last_animation_id = None
  /\ current_animation_phase = IDLE
  /\ last_step_time = None
  /\ now = 0
  /\ game_speed = 10
  /\ applied_speed = None
  /\ pc = "outside"
  /\ action = None
  /\ current_time = None
  /\ start_wait = None
  /\ max_wait = None
  /\ current_animation = None
  /\ sent_keys = <<>>
  /\ result = "none"
  /\ error = "none"
  /\ obs = NoObs
  /\ resets = 0
  /\ failures = 0

\* FrameStack.__init__ and DictFrameStack.__init__: empty buffers
InitStacks ==
  /\ frames = <<>> /\ dict_frames = <<>>
  /\ stacked = <<>> /\ dict_stacked = NoInnerObs
  /\ received = <<>> /\ cleared = {}

\* HPRefundWrapper.__init__: no previous HP
InitRefund ==
  /\ prev_player_hp = None
  /\ info = NoInfo
  /\ hp_writes = <<>>

\* NormalizeMemoryAttributes.__init__: no observed range
InitNormalize ==
  /\ observed_min = NoRanges /\ observed_max = NoRanges
  /\ normalized = NoRanges

\* the game before any step: the player at full HP, nothing lost or reported
InitGame ==
  /\ hero_hp = MaxHp /\ refund_pending = FALSE
  /\ hp_lost = 0 /\ hp_reported = 0

\* no call of the interruption rule on its own
InitRule ==
  /\ rule_args = <<>> /\ rule_result = "none"

\* the wrappers as their constructors leave them with the default arguments;
\* none of them is called
InitWrappers ==
  /\ inner_obs = NoInnerObs /\ wrapper_result = "none"
  /\ num_stack = 4 /\ InitStacks
  /\ refund_player = TRUE /\ InitRefund
  /\ attribute_ranges = NoRanges /\ InitNormalize
  /\ InitGame

\* __init__ with its default arguments: stepping_strategy='adaptive',
\* observation_sampling='smart', action_interruption_enabled=True,
\* agent_frequency=10.0, max_action_duration=3.0
Init ==
  /\ stepping_strategy = "adaptive"
  /\ observation_sampling = "smart"
  /\ action_interruption_enabled = TRUE
  /\ agent_step_interval = 1
  /\ max_action_duration = 30
  /\ fault_limit = MaxFailures
  /\ action_map_arg = NoCatalog
  /\ InitFields
  /\ InitWrappers
  /\ InitRule

\* the same environment, with one more failing call on the game client
InitFaulty ==
  /\ stepping_strategy = "adaptive"
  /\ observation_sampling = "smart"
  /\ action_interruption_enabled = TRUE
  /\ agent_step_interval = 1
  /\ max_action_duration = 30
  /\ fault_limit = MaxFailures + 1
  /\ action_map_arg = NoCatalog
  /\ InitFields
  /\ InitWrappers
  /\ InitRule

\* __init__ with stepping_strategy='pause' or 'continuous', the other arguments
\* at their defaults
InitStrategies ==
  /\ stepping_strategy \in {"pause", "continuous"}
  /\ observation_sampling = "smart"
  /\ action_interruption_enabled = TRUE
  /\ agent_step_interval = 1
  /\ max_action_duration = 30
  /\ fault_limit = MaxFailures
  /\ action_map_arg = NoCatalog
  /\ InitFields
  /\ InitWrappers
  /\ InitRule

\* __init__ with each observation_sampling and agent_frequency=2.0, the other
\* arguments at their defaults
InitSampling ==
  /\ stepping_strategy = "adaptive"
  /\ observation_sampling \in Samplings
  /\ action_interruption_enabled = TRUE
  /\ agent_step_interval = 5
  /\ max_action_duration = 30
  /\ fault_limit = MaxFailures
  /\ action_map_arg = NoCatalog
  /\ InitFields
  /\ InitWrappers
  /\ InitRule

\* __init__ with max_action_duration=0.5, shorter than Jump (0.8 s) and Attack
\* (1.5 s), or 3.0, the other arguments at their defaults
InitMaxDurations ==
  /\ stepping_strategy = "adaptive"
  /\ observation_sampling = "smart"
  /\ action_interruption_enabled = TRUE
  /\ agent_step_interval = 1
  /\ max_action_duration \in MaxActionDurations
  /\ fault_limit = MaxFailures
  /\ action_map_arg = NoCatalog
  /\ InitFields
  /\ InitWrappers
  /\ InitRule

\* the arguments of a call of __init__ that has not run yet: the defaults, with
\* action_map either None or a catalog of its own
InitConstruct ==
  /\ stepping_strategy = "adaptive"
  /\ observation_sampling = "smart"
  /\ action_interruption_enabled = TRUE
  /\ agent_step_interval = 1
  /\ max_action_duration = 30
  /\ fault_limit = MaxFailures
  /\ action_map_arg \in CatalogArgs
  /\ current_action = None
  /\ action_start_time = None
  /\ action_state = IDLE
  /\ action_queue = <<>>
  /\ last_animation_id = None
  /\ current_animation_phase = IDLE
  /\ last_step_time = None
  /\ now = 0
  /\ game_speed = 10
  /\ applied_speed = None
  /\ pc = "new"
  /\ action = None
  /\ current_time = None
  /\ start_wait = None
  /\ max_wait = None
  /\ current_animation = None
  /\ sent_keys = <<>>
  /\ result = "none"
  /\ error = "none"
  /\ obs = NoObs
  /\ resets = 0
  /\ failures = 0
  /\ InitWrappers
  /\ InitRule

\* __init__ with max_action_duration=0.5 or 3.0 and a game client none of whose
\* calls raises
InitLive ==
  /\ stepping_strategy = "adaptive"
  /\ observation_sampling = "smart"
  /\ action_interruption_enabled = TRUE
  /\ agent_step_interval = 1
  /\ max_action_duration \in MaxActionDurations
  /\ fault_limit = 0
  /\ action_map_arg = NoCatalog
  /\ InitFields
  /\ InitWrappers
  /\ InitRule

\* ----------------------------------------------------------- environment
\* the program points at which time() can return more than it did at the previous
\* point: between two calls, and after a call on the game client or a sleep
TickPoints == {"outside", "admit", "strategy", "loop", "loop_strategy"}

\* the wall clock read by time()
Tick ==
  /\ now < MaxTime + ResetSleep * resets
  /\ pc \in TickPoints
  /\ now' = now + 1
  /\ UNCHANGED <<rule, wrappers, config, fields, game_speed, applied_speed, locals, current_animation,
                 pc, sent_keys, result, error, obs, resets, failures>>

\* the wall clock during the wait loop: sleep(0.01) at line 374 lets it advance
\* in every iteration, here as long as the wait bound has not been reached
TickWait ==
  /\ pc \in {"loop", "loop_strategy"}
  /\ now - start_wait < max_wait
  /\ now' = now + 1
  /\ UNCHANGED <<rule, wrappers, config, fields, game_speed, applied_speed, locals, current_animation,
                 pc, sent_keys, result, error, obs, resets, failures>>

\* the exception e leaves the call in progress
Abort(e) ==
  /\ pc' = "outside"
  /\ result' = "raised"
  /\ error' = e
  /\ action' = None /\ current_time' = None /\ start_wait' = None /\ max_wait' = None
  /\ obs' = NoObs

\* Raise with the exception swallowed: the call ends as if it had returned
Raise_swallowed(e) ==
  /\ pc' = "outside"
  /\ result' = "returned"
  /\ error' = "none"
  /\ action' = None /\ current_time' = None /\ start_wait' = None /\ max_wait' = None
  /\ obs' = NoObs
  /\ UNCHANGED failures

\* an exception raised by the code of the environment itself
Raise(e) == Abort(e) /\ UNCHANGED failures

\* an exception raised by the call named call on the game client (gRPC)
ClientRaise(call) ==
  /\ failures < fault_limit
  /\ failures' = failures + 1
  /\ Abort(call)

\* the call in progress continues at pc value to
Goto(to) ==
  /\ pc' = to
  /\ UNCHANGED <<locals, result, error, obs, failures>>

\* -------------------------------------------------------------- __init__
\* __init__, lines 68-97: the catalog is the one _discrete_action_map builds,
\* whatever the action_map argument is; no definition is validated and the
\* tracking fields get their initial values
Construct ==
  /\ pc = "new"
  /\ pc' = "outside"
  /\ UNCHANGED <<rule, wrappers, config, fields, world, locals, current_animation, sent_keys, result,
                 error, obs, resets, failures>>

\* ------------------------------------------------------------------ step
\* step, line 326: current_time = time(); no call begins once the clock has
\* passed the last tick of the bounded clock
StepBegin(a) ==
  /\ pc = "outside"
  /\ now <= MaxTime + ResetSleep * resets
  /\ pc' = "refresh"
  /\ action' = a
  /\ current_time' = now
  /\ sent_keys' = <<>>
  /\ result' = "running"
  /\ error' = "none"
  /\ obs' = NoObs
  /\ applied_speed' = None
  /\ current_animation' = None
  /\ UNCHANGED <<rule, wrappers, config, fields, now, game_speed,
                 start_wait, max_wait, resets, failures>>

\* _update_action_state: an executing action that is complete becomes COMPLETED
UpdateActionState(animation) ==
  /\ action_state' = IF completes(animation) THEN COMPLETED ELSE action_state
  /\ current_action' = IF completes(animation) THEN None ELSE current_action
  /\ action_start_time' = IF completes(animation) THEN None
                                                           ELSE action_start_time

\* step, lines 329-334: refresh the execution state, then look the request up
Refresh ==
  /\ pc = "refresh"
  /\ \/ /\ reads_animation          \* player_animation_id raises
        /\ ClientRaise("player_animation_id")
        /\ current_animation' = None
        /\ UNCHANGED fields
     \/ \E animation \in AnimIds :
          /\ UpdateActionState(animation)
          /\ current_animation' = IF reads_animation THEN animation ELSE None
          /\ current_animation_phase' = IF completes(animation)
                                        THEN IDLE ELSE get_current_animation_phase
          /\ UNCHANGED <<action_queue, last_animation_id, last_step_time>>
          /\ IF action \in DOMAIN action_map
             THEN Goto("admit")
             ELSE Raise("KeyError")  \* at line 334
  /\ UNCHANGED <<rule, wrappers, config, world, sent_keys, resets>>

\* queue_rejected forgetting the request
queue_rejected_dropped(queue, action_id) == queue

\* step, lines 340-341: a rejected request is queued when interruption handling is enabled
queue_rejected(queue, action_id) ==
  IF action_interruption_enabled THEN Append(queue, action_id) ELSE queue

\* step, lines 337-347: queue the request or interrupt the executing action
Admit ==
  /\ pc = "admit"
  /\ IF action_state = EXECUTING
     THEN IF ~can_interrupt_action(action)
          THEN /\ action_queue' = queue_rejected(action_queue, action)
               /\ UNCHANGED <<action_state, current_action, action_start_time>>
          ELSE /\ action_state' = INTERRUPTED
               /\ current_action' = None
               /\ action_start_time' = None
               /\ UNCHANGED action_queue
     ELSE UNCHANGED <<action_state, current_action, action_start_time, action_queue>>
  /\ Goto("dispatch")
  /\ current_animation' = None
  /\ UNCHANGED <<rule, wrappers, config, last_animation_id, current_animation_phase, last_step_time,
                 world, sent_keys, resets>>

\* _execute_action: TRUE when client.send_key is called for the action
execute_sends(action_id) ==
  /\ action_map[action_id].name # "no-op"
  /\ action_keybindings[action_map[action_id].name] > 0

\* _execute_action: its return value when no call raises
execute_action(action_id) ==
  IF action_map[action_id].name = "no-op" THEN TRUE
  ELSE action_keybindings[action_map[action_id].name] > 0

\* StartAction without the start time
StartAction_no_start_time ==
  /\ current_action' = action
  /\ action_start_time' = action_start_time
  /\ action_state' = EXECUTING

\* StartAction stamping the time of the dispatch instead of the time of the step
StartAction_dispatch_time ==
  /\ current_action' = action
  /\ action_start_time' = now
  /\ action_state' = EXECUTING

\* StartAction leaving the lifecycle state for later
StartAction_not_executing ==
  /\ current_action' = action
  /\ action_start_time' = current_time
  /\ action_state' = action_state

\* step, lines 352-354: the action becomes the executing one
StartAction ==
  /\ current_action' = action
  /\ action_start_time' = current_time
  /\ action_state' = EXECUTING

\* SendKeyRaises with the action recorded as started before its input is sent
SendKeyRaises_after_start ==
  /\ sent_keys' = Append(sent_keys, action)
  /\ ClientRaise("send_key")
  /\ StartAction
  /\ UNCHANGED <<action_queue, last_animation_id, current_animation_phase,
                 last_step_time>>

\* _execute_action, line 220: client.send_key raises; lines 352-356 are not reached
SendKeyRaises ==
  /\ sent_keys' = Append(sent_keys, action)
  /\ ClientRaise("send_key")
  /\ UNCHANGED fields

\* may_dispatch ignoring the lifecycle state
may_dispatch_always == TRUE

\* step, line 350: the request is dispatched unless an action is still executing
may_dispatch == action_state \in {IDLE, COMPLETED, INTERRUPTED}

\* step, lines 350-356: dispatch the request and start the action
Dispatch ==
  /\ pc = "dispatch"
  /\ IF may_dispatch
     THEN \/ /\ execute_sends(action)      \* send_key raises
             /\ SendKeyRaises
          \/ /\ execute_action(action)     \* player_animation_id raises at line 355
             /\ sent_keys' = IF execute_sends(action) THEN Append(sent_keys, action)
                                                     ELSE sent_keys
             /\ StartAction
             /\ ClientRaise("player_animation_id")
             /\ UNCHANGED <<action_queue, last_animation_id, current_animation_phase,
                            last_step_time>>
          \/ /\ sent_keys' = IF execute_sends(action) THEN Append(sent_keys, action)
                                                     ELSE sent_keys
             /\ IF execute_action(action)
                THEN /\ StartAction
                     /\ last_animation_id' \in AnimIds
                     /\ current_animation_phase' = STARTUP
                ELSE UNCHANGED <<current_action, action_start_time, action_state,
                                 last_animation_id, current_animation_phase>>
             /\ Goto("strategy")
             /\ UNCHANGED <<action_queue, last_step_time>>
     ELSE /\ Goto("strategy")
          /\ UNCHANGED <<fields, sent_keys>>
  /\ UNCHANGED <<rule, wrappers, config, world, current_animation, resets>>

\* _handle_stepping_strategy: send the factor of the strategy to the game;
\* the call in progress continues at pc value to
HandleSteppingStrategy(to) ==
  IF stepping_speed = None
  THEN /\ applied_speed' = None
       /\ Goto(to)
       /\ UNCHANGED game_speed
  ELSE \/ /\ ClientRaise("set_game_speed")   \* set_game_speed raises
          /\ UNCHANGED <<game_speed, applied_speed>>
       \/ /\ game_speed' = stepping_speed
          /\ applied_speed' = stepping_speed
          /\ Goto(to)

\* step, line 359
Strategy ==
  /\ pc = "strategy"
  /\ HandleSteppingStrategy("wait")
  /\ UNCHANGED <<rule, wrappers, config, fields, now, current_animation, sent_keys, resets>>

\* Wait going on to the observation without waiting for the action
Wait_skipped ==
  /\ pc = "wait"
  /\ pc' = "sample"
  /\ UNCHANGED <<max_wait, start_wait>>
  /\ UNCHANGED <<rule, wrappers, config, fields, world, action, current_time, current_animation,
                 sent_keys, result, error, obs, resets, failures>>

\* step, lines 362-367: compute the wait bound and start waiting
Wait ==
  /\ pc = "wait"
  /\ IF action_state = EXECUTING
     THEN /\ max_wait' = Min(action_map[current_action].duration, max_action_duration)
          /\ start_wait' = now
          /\ pc' = "loop"
     ELSE /\ pc' = "sample"
          /\ UNCHANGED <<max_wait, start_wait>>
  /\ UNCHANGED <<rule, wrappers, config, fields, world, action, current_time, current_animation,
                 sent_keys, result, error, obs, resets, failures>>

\* ForceCompletion leaving the action as the wait loop left it
ForceCompletion_skipped ==
  UNCHANGED <<action_state, current_action, action_start_time, current_animation_phase>>

\* ForceCompletion clearing the animation phase only
ForceCompletion_phase_only ==
  /\ current_animation_phase' = IF action_state = EXECUTING THEN IDLE
                                                           ELSE current_animation_phase
  /\ UNCHANGED <<action_state, current_action, action_start_time>>

\* step, lines 376-380: an action still executing after the wait is completed by force
ForceCompletion ==
  /\ action_state' = IF action_state = EXECUTING THEN COMPLETED ELSE action_state
  /\ current_action' = IF action_state = EXECUTING THEN None ELSE current_action
  /\ action_start_time' = IF action_state = EXECUTING THEN None ELSE action_start_time
  /\ current_animation_phase' = IF action_state = EXECUTING THEN IDLE
                                                           ELSE current_animation_phase

\* wait_continues without an exit test
wait_continues_no_exit == TRUE

\* step, lines 368-369: the test of the wait loop
wait_continues == now - start_wait < max_wait /\ action_state = EXECUTING

\* step, lines 368-370 and 376-380: one test of the wait loop, then either the
\* completion check of the iteration or the forced completion after the loop
Loop ==
  /\ pc = "loop"
  /\ IF wait_continues
     THEN \/ /\ reads_animation     \* player_animation_id raises
             /\ ClientRaise("player_animation_id")
             /\ current_animation' = None
             /\ UNCHANGED fields
          \/ \E animation \in AnimIds :
               /\ UpdateActionState(animation)
               /\ current_animation' = IF reads_animation THEN animation ELSE None
               /\ current_animation_phase' = IF completes(animation)
                                             THEN IDLE ELSE current_animation_phase
               /\ Goto("loop_strategy")
               /\ UNCHANGED <<action_queue, last_animation_id, last_step_time>>
     ELSE /\ ForceCompletion
          /\ Goto("sample")
          /\ UNCHANGED current_animation
          /\ UNCHANGED <<action_queue, last_animation_id, last_step_time>>
  /\ UNCHANGED <<rule, wrappers, config, world, sent_keys, resets>>

\* step, lines 371-373: recompute the phase and apply the speed factor inside
\* the wait loop, then sleep
LoopStrategy ==
  /\ pc = "loop_strategy"
  /\ current_animation_phase' = get_current_animation_phase
  /\ HandleSteppingStrategy("loop")
  /\ current_animation' = None
  /\ UNCHANGED <<rule, wrappers, config, current_action, action_start_time, action_state, action_queue,
                 last_animation_id, last_step_time, now, sent_keys,
                 resets>>

\* step, lines 387-414: decide on sampling, fetch the snapshot and return
Sample ==
  /\ pc = "sample"
  /\ \/ /\ ClientRaise("get_frame") \* a snapshot read raises
        /\ UNCHANGED last_step_time
     \/ /\ observation_divides_by_zero
        /\ Raise("ZeroDivisionError")             \* at line 425
        /\ UNCHANGED last_step_time
     \/ /\ ~observation_divides_by_zero
        /\ obs' = get_observation
        /\ last_step_time' = IF should_sample_observation THEN current_time
                                                          ELSE last_step_time
        /\ pc' = "outside"
        /\ result' = "returned"
        /\ error' = "none"
        /\ action' = None /\ current_time' = None /\ start_wait' = None /\ max_wait' = None
        /\ UNCHANGED failures
  /\ UNCHANGED <<rule, wrappers, config, current_action, action_start_time, action_state, action_queue,
                 last_animation_id, current_animation_phase, world, current_animation,
                 sent_keys, resets>>

\* ----------------------------------------------------------------- reset
\* ResetTracking keeping the pending requests
ResetTracking_queue_kept ==
  /\ current_action' = None
  /\ action_start_time' = None
  /\ action_state' = IDLE
  /\ action_queue' = action_queue

\* reset, lines 304-307
ResetTracking ==
  /\ current_action' = None
  /\ action_start_time' = None
  /\ action_state' = IDLE
  /\ action_queue' = <<>>

\* reset: every call ends in an exception, at line 319 at the latest
\* (self.freeze_min_game_speed is not defined)
Reset ==
  /\ pc = "outside"
  /\ result' = "raised"
  /\ obs' = NoObs
  /\ \/ /\ failures < fault_limit                            \* line 298 raises
        /\ failures' = failures + 1
        /\ error' = "set_game_speed"
        /\ UNCHANGED <<fields, now, game_speed, resets>>
     \/ /\ resets < MaxResets                                \* line 308 raises
        /\ failures < fault_limit
        /\ failures' = failures + 1
        /\ resets' = resets + 1
        /\ now' = now + ResetSleep
        /\ game_speed' = 10
        /\ ResetTracking
        /\ error' = "player_animation_id"
        /\ UNCHANGED <<last_animation_id, current_animation_phase, last_step_time>>
     \/ /\ resets < MaxResets                                \* lines 315-319 raise
        /\ resets' = resets + 1
        /\ now' = now + ResetSleep
        /\ game_speed' = 10
        /\ ResetTracking
        /\ last_animation_id' \in AnimIds
        /\ current_animation_phase' = IDLE
        /\ last_step_time' = None
        /\ error' = "AttributeError"
        /\ UNCHANGED failures
  /\ UNCHANGED <<rule, wrappers, config, applied_speed, pc, locals, current_animation, sent_keys>>

\* ----------------------------------------------------------------- close
\* close: closes the channel of the client and nothing else; the calls that may
\* follow on a closed environment are not modelled
Close ==
  /\ pc = "outside"
  /\ pc' = "closed"
  /\ result' = "returned"
  /\ error' = "none"
  /\ obs' = NoObs
  /\ UNCHANGED <<rule, wrappers, config, fields, world, locals, current_animation, sent_keys, resets, failures>>

\* -------------------------------------------------------------- wrappers
\* FrameStack and DictFrameStack around the same environment: its step returns
\* the observation o and observation() of each wrapper is applied to it
StackStep(o) ==
  /\ Len(received) < MaxFrames
  /\ inner_obs' = o
  /\ wrapper_result' = "step"
  /\ frames' = FrameStack_observation(frames, o.frame)
  /\ stacked' = concatenate(FrameStack_observation(frames, o.frame))
  /\ dict_frames' = DictFrameStack_observation(dict_frames, o)
  /\ dict_stacked' = DictFrameStack_output(dict_frames, o)
  /\ received' = Append(received, o.frame)
  /\ UNCHANGED <<rule, env, game, num_stack, cleared, refund, normalize>>

\* StackReset without the clear() of the buffers
StackReset_uncleared(o) ==
  /\ inner_obs' = o
  /\ wrapper_result' = "reset"
  /\ frames' = FrameStack_observation(frames, o.frame)
  /\ stacked' = concatenate(FrameStack_observation(frames, o.frame))
  /\ dict_frames' = DictFrameStack_observation(dict_frames, o)
  /\ dict_stacked' = DictFrameStack_output(dict_frames, o)
  /\ received' = <<o.frame>>
  /\ cleared' = {frames[i] : i \in 1..Len(frames)}
  /\ UNCHANGED <<rule, env, game, num_stack, refund, normalize>>

\* reset of both wrappers, in an environment whose reset returns the observation
\* o: the buffers are cleared, then observation() is applied; a reset of the
\* environment that raises leaves the buffers as they are
StackReset(o) ==
  /\ inner_obs' = o
  /\ wrapper_result' = "reset"
  /\ frames' = FrameStack_observation(<<>>, o.frame)
  /\ stacked' = concatenate(FrameStack_observation(<<>>, o.frame))
  /\ dict_frames' = DictFrameStack_observation(<<>>, o)
  /\ dict_stacked' = DictFrameStack_output(<<>>, o)
  /\ received' = <<o.frame>>
  /\ cleared' = {frames[i] : i \in 1..Len(frames)}
  /\ UNCHANGED <<rule, env, game, num_stack, refund, normalize>>

\* HPRefundWrapper.step around an environment whose step returns the observation o
RefundStep(o) ==
  /\ inner_obs' = o
  /\ IF refund_player /\ o.HeroMaxHp > 0
     THEN /\ info' = [player_damage_taken |-> player_damage(o)]
          /\ IF player_damage(o) > 0
             THEN IF set_attribute(refund_call(o.HeroMaxHp)) = "sent"
                  THEN /\ hp_writes' = <<o.HeroMaxHp>>
                       /\ prev_player_hp' = o.HeroMaxHp
                       /\ wrapper_result' = "step"
                  ELSE /\ hp_writes' = <<>>          \* the call raises at line 356
                       /\ wrapper_result' = set_attribute(refund_call(o.HeroMaxHp))
                       /\ UNCHANGED prev_player_hp
             ELSE /\ hp_writes' = <<>>
                  /\ prev_player_hp' = o.HeroHp
                  /\ wrapper_result' = "step"
     ELSE /\ info' = NoInfo
          /\ hp_writes' = <<>>
          /\ wrapper_result' = "step"
          /\ UNCHANGED prev_player_hp
  /\ UNCHANGED <<rule, env, refund_player, stacks, normalize>>

\* HPRefundWrapper.reset around an environment whose reset returns o
RefundReset(o) ==
  /\ inner_obs' = o
  /\ wrapper_result' = "reset"
  /\ prev_player_hp' = o.HeroHp
  /\ info' = NoInfo
  /\ hp_writes' = <<>>
  /\ UNCHANGED <<rule, env, refund_player, stacks, normalize>>

\* NormalizeMemoryAttributes.observation applied to the observation o that a step
\* or a reset of the environment returned
NormalizeObservation(o) ==
  /\ inner_obs' = o
  /\ wrapper_result' = "observation"
  /\ observed_min' = observed_min_after(o)
  /\ observed_max' = observed_max_after(o)
  /\ normalized' = [k \in {"frame"} \cup Attrs |->
                      IF k = "frame" THEN o.frame ELSE normalized_value(k, o)]
  /\ UNCHANGED <<rule, env, game, attribute_ranges, stacks, refund>>

\* ------------------------------------------------------------------ Next
Step ==
  \/ \E a \in StepActions : StepBegin(a)
  \/ Refresh
  \/ Admit
  \/ Dispatch
  \/ Strategy
  \/ Wait
  \/ Loop
  \/ LoopStrategy
  \/ Sample

Next == Step \/ Reset \/ Tick

Spec == Init /\ [][Next]_vars

SpecFaulty == InitFaulty /\ [][Next]_vars

\* the environment with close() among its operations
NextClose == Step \/ Reset \/ Tick \/ Close

SpecClose == Init /\ [][NextClose]_vars

SpecStrategies == InitStrategies /\ [][Next]_vars

SpecSampling == InitSampling /\ [][Next]_vars

SpecMaxDurations == InitMaxDurations /\ [][Next]_vars

\* the environment with a clock that keeps advancing during the wait loop and an
\* interpreter that keeps executing the call in progress
NextLive == Step \/ Reset \/ Tick \/ TickWait

SpecLive == InitLive /\ [][NextLive]_vars /\ WF_vars(Step) /\ WF_vars(TickWait)

\* the environment from the call of its constructor on
NextConstruct == Construct \/ Step \/ Reset \/ Tick

SpecConstruct == InitConstruct /\ [][NextConstruct]_vars

\* the default environment, as Init leaves it
InitEnv ==
  /\ stepping_strategy = "adaptive"
  /\ observation_sampling = "smart"
  /\ action_interruption_enabled = TRUE
  /\ agent_step_interval = 1
  /\ max_action_duration = 30
  /\ fault_limit = MaxFailures
  /\ action_map_arg = NoCatalog
  /\ InitFields

\* FrameStack(env, num_stack) and DictFrameStack(env, num_stack)
InitStack ==
  /\ InitEnv
  /\ InitRule
  /\ inner_obs = NoInnerObs /\ wrapper_result = "none"
  /\ num_stack \in NumStacks /\ InitStacks
  /\ refund_player = TRUE /\ InitRefund
  /\ attribute_ranges = NoRanges /\ InitNormalize
  /\ InitGame

NextStack == \E o \in InnerObs : (StackStep(o) \/ StackReset(o))

SpecStack == InitStack /\ [][NextStack]_vars

\* HPRefundWrapper(env, refund_player)
InitHPRefund ==
  /\ InitEnv
  /\ InitRule
  /\ inner_obs = NoInnerObs /\ wrapper_result = "none"
  /\ num_stack = 4 /\ InitStacks
  /\ refund_player \in BOOLEAN /\ InitRefund
  /\ attribute_ranges = NoRanges /\ InitNormalize
  /\ InitGame

NextHPRefund ==
  \E o \in InnerObs : ((RefundStep(o) \/ RefundReset(o)) /\ UNCHANGED game)

SpecHPRefund == InitHPRefund /\ [][NextHPRefund]_vars

\* the game under HPRefundWrapper: the player loses d HP
Damage(d) ==
  /\ d <= hero_hp /\ hp_lost + d <= MaxLost
  /\ hero_hp' = hero_hp - d
  /\ hp_lost' = hp_lost + d
  /\ UNCHANGED <<rule, env, stacks, refund, normalize, inner_obs, wrapper_result,
                 refund_pending, hp_reported>>

\* the observation the environment builds of the frame when the player's HP is hp
GameObs(frame, hp) == [frame |-> frame, HeroHp |-> hp, HeroMaxHp |-> MaxHp]

\* HPRefundWrapper.step around the game: a write of the player's HP issued by an
\* earlier step takes effect before the observation is read (apply) or stays
\* pending; the damage the step reports is added to the reported total when
\* the step returns; the HP lost is counted from the observation that starts
\* the tracking of the wrapper
GameStep(apply, frame) ==
  /\ (apply => refund_pending)
  /\ RefundStep(GameObs(frame, IF apply THEN MaxHp ELSE hero_hp))
  /\ hero_hp' = IF apply THEN MaxHp ELSE hero_hp
  /\ refund_pending' = IF hp_writes' # <<>> THEN TRUE ELSE (refund_pending /\ ~apply)
  /\ hp_reported' = IF wrapper_result' = "step" /\ info'.player_damage_taken # None
                    THEN hp_reported + info'.player_damage_taken
                    ELSE hp_reported
  /\ hp_lost' = IF prev_player_hp = None THEN 0 ELSE hp_lost

\* HPRefundWrapper.reset around the game: a new episode starts at full HP
GameReset(frame) ==
  /\ RefundReset(GameObs(frame, MaxHp))
  /\ hero_hp' = MaxHp /\ refund_pending' = FALSE
  /\ hp_lost' = 0 /\ hp_reported' = 0

\* HPRefundWrapper(env, refund_player) around a game
InitHPGame ==
  /\ InitEnv
  /\ InitRule
  /\ inner_obs = NoInnerObs /\ wrapper_result = "none"
  /\ num_stack = 4 /\ InitStacks
  /\ refund_player \in BOOLEAN /\ InitRefund
  /\ attribute_ranges = NoRanges /\ InitNormalize
  /\ InitGame

NextHPGame ==
  \/ \E d \in 1..MaxHp : Damage(d)
  \/ \E apply \in BOOLEAN, frame \in Frames : GameStep(apply, frame)
  \/ \E frame \in Frames : GameReset(frame)

SpecHPGame == InitHPGame /\ [][NextHPGame]_vars

\* NormalizeMemoryAttributes(env, attribute_ranges)
InitNormalizeMemory ==
  /\ InitEnv
  /\ InitRule
  /\ inner_obs = NoInnerObs /\ wrapper_result = "none"
  /\ num_stack = 4 /\ InitStacks
  /\ refund_player = TRUE /\ InitRefund
  /\ attribute_ranges \in RangeArgs /\ InitNormalize
  /\ InitGame

NextNormalize == \E o \in InnerObs : NormalizeObservation(o)

SpecNormalize == InitNormalizeMemory /\ [][NextNormalize]_vars

\* _can_interrupt_action called for a current category, a requested category
\* and a phase of the executing action
InitInterruptRule ==
  /\ InitEnv
  /\ InitWrappers
  /\ rule_args \in ActionType \X ActionType \X AnimationPhase
  /\ rule_result = "none"

\* the call returns
ApplyInterruptRule ==
  /\ rule_result = "none"
  /\ rule_result' = IF interrupt_rule(rule_args[1], rule_args[2], rule_args[3])
                    THEN "true" ELSE "false"
  /\ UNCHANGED <<env, wrappers, rule_args>>

SpecInterruptRule == InitInterruptRule /\ [][ApplyInterruptRule]_vars

\* ================================================================ claims
Registered == DOMAIN action_map

TypeOf(id) == action_map[id].type

Elapsed == now - action_start_time

\* C1: whenever no call is in progress (initially, after reset, after a step that
\* returned or raised), the lifecycle state is EXECUTING exactly when both the
\* current action and the start time are set, and in IDLE, COMPLETED and
\* INTERRUPTED both are cleared.
C1_ExecutingIffSet ==
  pc = "outside" =>
    /\ (action_state = EXECUTING) <=> (current_action # None /\ action_start_time # None)
    /\ (action_state # EXECUTING) => (current_action = None /\ action_start_time = None)

C1_Witness ==
  /\ pc = "outside" /\ result = "raised"
  /\ action_state = EXECUTING /\ current_action # None /\ action_start_time # None

\* the interruption rule refuses every request in the Startup and Active phases
\* of a Combat or Dodge action
C2_Rule ==
  \A ct \in {COMBAT, DODGE}, nt \in ActionType, ph \in {STARTUP, ACTIVE} :
     ~interrupt_rule(ct, nt, ph)

\* C2: while a Combat or Dodge action executes in its Startup or Active phase,
\* _can_interrupt_action is false for every requested action of the catalog.
C2_NoInterruptWhileCommitted ==
  /\ C2_Rule
  /\ (/\ action_state = EXECUTING
      /\ TypeOf(current_action) \in {COMBAT, DODGE}
      /\ get_current_animation_phase \in {STARTUP, ACTIVE})
     => \A n \in Registered : ~can_interrupt_action(n)

C2_Witness ==
  /\ pc = "dispatch" /\ action_state = EXECUTING
  /\ TypeOf(current_action) \in {COMBAT, DODGE}
  /\ get_current_animation_phase = ACTIVE
  /\ action_queue # <<>> /\ action_queue[Len(action_queue)] = action

\* C3: a request for another action than the executing one that may not interrupt
\* it is rejected: it is appended as pending, the lifecycle stays EXECUTING with
\* the same action and start time, and the step sends no input for it.
C3_RejectedRequestIsQueued ==
  [][/\ (/\ pc = "admit" /\ pc' = "dispatch" /\ action_state = EXECUTING
         /\ action # current_action /\ ~can_interrupt_action(action))
        => /\ action_queue' = Append(action_queue, action)
           /\ action_state' = EXECUTING
           /\ current_action' = current_action
           /\ action_start_time' = action_start_time
           /\ sent_keys' = <<>>
     /\ (pc = "dispatch" /\ action_state = EXECUTING)
        => /\ action_state' = EXECUTING
           /\ current_action' = current_action
           /\ action_start_time' = action_start_time
           /\ action_queue' = action_queue
           /\ sent_keys' = <<>>
     /\ (pc \in {"strategy", "wait", "loop", "loop_strategy", "sample"})
        => sent_keys' = sent_keys
    ]_vars

\* Dodge (jump) requested 0.2 s into the Startup of Attack
C3_Witness ==
  /\ pc = "dispatch" /\ action_state = EXECUTING
  /\ current_action = 11 /\ action = 5 /\ Elapsed = 2
  /\ action_queue = <<5>> /\ sent_keys = <<>>

\* C4: a Dodge request made while a Combat action executes in its Recovery phase
\* is accepted: the lifecycle becomes INTERRUPTED with the current action and the
\* start time cleared, and the dispatch of the same step, unless send_key raises,
\* makes it EXECUTING with the requested action, started at the time of the step.
C4_RecoveryInterruptAndRestart ==
  [][/\ (/\ pc = "admit" /\ pc' = "dispatch" /\ action_state = EXECUTING
         /\ TypeOf(current_action) = COMBAT
         /\ get_current_animation_phase = RECOVERY
         /\ TypeOf(action) = DODGE)
        => /\ action_state' = INTERRUPTED
           /\ current_action' = None
           /\ action_start_time' = None
     /\ (pc = "dispatch" /\ action_state = INTERRUPTED)
        => \/ /\ action_state' = EXECUTING
              /\ current_action' = action
              /\ action_start_time' = current_time
           \/ /\ pc' = "outside" /\ result' = "raised"
              /\ sent_keys' = <<action>>
              /\ action_state' = INTERRUPTED
    ]_vars

C4_Witness ==
  /\ pc = "dispatch" /\ action_state = INTERRUPTED
  /\ current_action = None /\ action_start_time = None
  /\ current_animation_phase = RECOVERY
  /\ TypeOf(action) = DODGE /\ now > current_time

\* C5: at most one pending request is outstanding in every reachable state.
C5_SingleSlotPending == Len(action_queue) <= 1

\* C6: dispatching the no-op action while the lifecycle is IDLE leaves the
\* execution state unchanged: still IDLE, nothing current, pending unchanged.
C6_NoOpLeavesIdle ==
  [][(pc = "dispatch" /\ action = 0 /\ action_state = IDLE)
     => /\ action_state' = IDLE
        /\ current_action' = None
        /\ action_start_time' = None
        /\ action_queue' = action_queue
    ]_vars

\* the phase the declared breakdown gives for an elapsed time
DeclaredPhase(action_data, elapsed) ==
  LET s == action_data.phases.startup
      a == action_data.phases.active
  IN  IF elapsed < s THEN STARTUP
      ELSE IF elapsed < s + a THEN ACTIVE
      ELSE RECOVERY

\* every action of the catalog that declares phases, at every elapsed time below
\* its duration
C7_Catalog ==
  \A id \in Registered :
     DOMAIN action_map[id].phases # {} =>
       \A e \in 0..(action_map[id].duration - 1) :
         phase_at(action_map[id], e) = DeclaredPhase(action_map[id], e)

\* C7: for an executing action with declared phases s, a, r (s + a + r = duration)
\* the computed phase is Startup before s, Active from s up to s + a, and
\* Recovery from s + a up to the duration.
C7_PhaseBoundaries ==
  /\ C7_Catalog
  /\ (/\ action_state = EXECUTING
      /\ DOMAIN action_map[current_action].phases # {}
      /\ Elapsed < action_map[current_action].duration)
     => get_current_animation_phase = DeclaredPhase(action_map[current_action], Elapsed)

\* the wait loop has just computed Active at the instant Attack's startup ends
C7_Witness ==
  /\ pc = "loop" /\ action_state = EXECUTING /\ current_action = 11
  /\ Elapsed = action_map[11].phases.startup
  /\ current_animation_phase = ACTIVE

\* the interruption rule in the Recovery phase, for every pair of categories
C8_Rule ==
  \A nt \in ActionType :
     /\ interrupt_rule(MOVEMENT, nt, RECOVERY)
     /\ \A ct \in {DODGE, COMBAT} :
          interrupt_rule(ct, nt, RECOVERY) <=> nt \in {DODGE, COMBAT}

\* C8: in the Recovery phase a Movement action may be interrupted by every
\* request, and a Dodge or Combat action exactly by Dodge and Combat requests.
C8_RecoveryPriority ==
  /\ C8_Rule
  /\ (action_state = EXECUTING /\ get_current_animation_phase = RECOVERY)
     => \A n \in Registered :
          /\ TypeOf(current_action) = MOVEMENT => can_interrupt_action(n)
          /\ TypeOf(current_action) \in {DODGE, COMBAT}
             => (can_interrupt_action(n) <=> TypeOf(n) \in {DODGE, COMBAT})

\* a Movement or Instant request refused during the Recovery of a Dodge or Combat action
C8_Witness ==
  /\ pc = "dispatch" /\ action_state = EXECUTING
  /\ TypeOf(current_action) \in {DODGE, COMBAT}
  /\ get_current_animation_phase = RECOVERY
  /\ TypeOf(action) \in {MOVEMENT, INSTANT}
  /\ action_queue # <<>> /\ action_queue[Len(action_queue)] = action

\* C9: an executing action whose duration has elapsed is completed by the next
\* refresh with no current action and phase Idle, and the snapshot a step returns
\* reports current_action None and animation_phase idle.
C9_NaturalCompletion ==
  /\ [][(/\ pc \in {"refresh", "loop"} /\ pc' # pc /\ action_state = EXECUTING
         /\ Elapsed >= action_map[current_action].duration)
        => /\ action_state' = COMPLETED
           /\ current_action' = None
           /\ action_start_time' = None
           /\ current_animation_phase' = IDLE
       ]_vars
  /\ [](result = "returned"
        => /\ obs.current_action = None /\ obs.animation_phase = IDLE
           /\ current_action = None /\ current_animation_phase = IDLE)

\* jump was dispatched, its 0.8 s have passed and the step has returned
C9_Witness ==
  /\ pc = "outside" /\ result = "returned" /\ sent_keys = <<5>>
  /\ now - last_step_time >= action_map[5].duration
  /\ action_state = COMPLETED
  /\ obs.current_action = None /\ obs.animation_phase = IDLE

\* the factor the Adaptive table gives for a phase
AdaptiveFactor(phase) ==
  IF phase = STARTUP THEN 5 ELSE IF phase = RECOVERY THEN 7 ELSE 10

\* C10: under the Adaptive strategy every invocation of the speed controller
\* leaves the game at the factor of the current phase: 0.5 in Startup, 1.0 in
\* Active, 0.7 in Recovery, 1.0 when the phase is Idle (also for an executing
\* action without phases or past its duration).
C10_AdaptiveFactors ==
  [][(/\ pc \in {"strategy", "loop_strategy"} /\ stepping_strategy = "adaptive"
      /\ pc' \notin {pc, "outside"})
     => game_speed' = AdaptiveFactor(get_current_animation_phase)
    ]_vars

\* C11: under the Pause strategy every invocation of the speed controller leaves
\* the game at 0.1 when the lifecycle is EXECUTING and at 1.0 otherwise; under the
\* Continuous strategy it leaves the game at 1.0 in every state.
C11_PauseAndContinuousFactors ==
  [][(pc \in {"strategy", "loop_strategy"} /\ pc' \notin {pc, "outside"})
     => /\ stepping_strategy = "pause"
           => /\ game_speed' = (IF action_state = EXECUTING THEN 1 ELSE 10)
              /\ applied_speed' = game_speed'
        /\ stepping_strategy = "continuous"
           => /\ game_speed' = 10
              /\ applied_speed' = 10
    ]_vars

\* under Pause the game was slowed to 0.1 for the action just dispatched
C11_Witness ==
  /\ stepping_strategy = "pause" /\ pc = "wait"
  /\ action_state = EXECUTING /\ applied_speed = 1 /\ game_speed = 1

\* what the sampling rule gives for a strategy, a lifecycle state, the time of the
\* last sample (None when there is none), the time of the check and the interval
SampleRule(sampling, state, last, t, interval) ==
  CASE sampling = "immediate" -> TRUE
    [] sampling = "completion" -> state \in {COMPLETED, IDLE}
    [] sampling = "smart" ->
         state \in {COMPLETED, IDLE} \/ last = None \/ t - last >= interval

\* the sampling decision for every strategy, lifecycle state, interval and pair of
\* times within the clock bound
C13_Table ==
  \A sampling \in Samplings, state \in ActionState, interval \in AgentIntervals :
    \A last \in {None} \cup 0..MaxTime, t \in 0..MaxTime :
      (last = None \/ last <= t)
      => (should_sample(sampling, state, last, t, interval)
          <=> SampleRule(sampling, state, last, t, interval))

\* C13: _should_sample_observation is true for Immediate; true exactly in
\* COMPLETED and IDLE for OnCompletion (false in EXECUTING and INTERRUPTED); and
\* for Smart true exactly in COMPLETED and IDLE, or without a prior sample, or
\* when the agent interval has passed since the last sample.
C13_ShouldSample ==
  /\ C13_Table
  /\ should_sample_observation
     <=> SampleRule(observation_sampling, action_state, last_step_time, now,
                    agent_step_interval)
  /\ (observation_sampling = "completion" /\ action_state \in {EXECUTING, INTERRUPTED})
     => ~should_sample_observation

\* OnCompletion refuses to sample while an action is executing
C13_Witness ==
  /\ observation_sampling = "completion" /\ action_state = EXECUTING
  /\ last_step_time # None /\ now - last_step_time >= agent_step_interval
  /\ ~should_sample_observation

\* C15 as stated: every step invocation makes a dispatch call, whatever the
\* lifecycle state at entry (the call of _execute_action is counted, so the no-op,
\* which sends no key, is not held against the statement).
C15_ExactlyOneDispatch ==
  [][(pc = "dispatch" /\ pc' # pc) => action_state \in {IDLE, COMPLETED, INTERRUPTED}]_vars

\* C15 amended: a step invocation sends at most one input, none when the request
\* is rejected (an action is still executing at the dispatch point), and takes at
\* most one snapshot, as its last statement.
C15_AtMostOneDispatch ==
  /\ [](Len(sent_keys) <= 1)
  /\ [][(sent_keys' # sent_keys)
        => \/ pc = "outside" /\ sent_keys' = <<>>
           \/ /\ pc = "dispatch" /\ action_state # EXECUTING
              /\ sent_keys = <<>> /\ sent_keys' = <<action>>
       ]_vars
  /\ [][(pc = "dispatch" /\ action_state = EXECUTING) => sent_keys' = <<>>]_vars
  /\ [][(obs' # obs /\ obs' # NoObs) => (pc = "sample" /\ pc' = "outside")]_vars

\* a rejected request other than the no-op has passed the dispatch point and no
\* input was sent
C15_Witness ==
  /\ pc = "wait" /\ action \notin {None, 0} /\ action_state = EXECUTING
  /\ action_queue = <<action>> /\ current_action # action
  /\ sent_keys = <<>>

\* C16: when client.send_key fails, the step sends nothing again, ends with the
\* exception, and the lifecycle state (not EXECUTING), the current action, the
\* start time and the pending queue are as they were before the dispatch attempt.
C16_DispatchFailure ==
  [][(pc = "dispatch" /\ error' = "send_key")
     => /\ pc' = "outside" /\ result' = "raised"
        /\ sent_keys' = <<action>>
        /\ action_state' = action_state /\ action_state' # EXECUTING
        /\ current_action' = current_action /\ current_action' = None
        /\ action_start_time' = action_start_time /\ action_start_time' = None
        /\ action_queue' = action_queue
    ]_vars

\* the dispatch of an attack after a completed action failed
C16_Witness ==
  /\ pc = "outside" /\ result = "raised" /\ error = "send_key"
  /\ sent_keys = <<11>> /\ action_state = COMPLETED
  /\ current_action = None /\ action_start_time = None

\* a step of reset(): the only step that starts and ends outside a call and
\* counts a reset or a failed client call
ResetStep ==
  /\ pc = "outside" /\ pc' = "outside"
  /\ (resets' # resets \/ failures' # failures)

\* C17: after reset() and after close() the lifecycle is IDLE and the current
\* action and the start time are cleared, whatever the state was before.
C17_ResetAndCloseDestroy ==
  [][(ResetStep \/ pc' = "closed")
     => /\ action_state' = IDLE
        /\ current_action' = None
        /\ action_start_time' = None
    ]_vars

\* C18: the lifecycle only moves along IDLE -> EXECUTING -> {COMPLETED,
\* INTERRUPTED} -> IDLE: EXECUTING is entered from IDLE by a dispatch, COMPLETED
\* and INTERRUPTED are entered from EXECUTING, and IDLE follows COMPLETED or
\* INTERRUPTED before the next action starts (reset() aside).
C18_LifecycleCycle ==
  [][~ResetStep
     => /\ (action_state' = EXECUTING /\ action_state # EXECUTING)
           => (action_state = IDLE /\ pc = "dispatch")
        /\ (action_state' \in {COMPLETED, INTERRUPTED} /\ action_state' # action_state)
           => action_state = EXECUTING
        /\ (action_state' = IDLE /\ action_state # IDLE)
           => action_state \in {COMPLETED, INTERRUPTED}
    ]_vars

\* C19: a step whose action id is not in the catalog ends with a KeyError (unless
\* a client call failed first), sends no input and starts no action: an action
\* is executing afterwards only if the same action was executing before, with
\* the same start time.
C19_UnknownAction ==
  [][(pc = "refresh" /\ action \notin Registered /\ error' # "player_animation_id")
     => /\ pc' = "outside" /\ result' = "raised" /\ error' = "KeyError"
        /\ sent_keys' = <<>>
        /\ current_action' # action
        /\ action_state' = EXECUTING
           => /\ action_state = EXECUTING
              /\ current_action' = current_action
              /\ action_start_time' = action_start_time
        /\ action_queue' = action_queue
    ]_vars

\* an unregistered id was refused while an attack was executing
C19_Witness ==
  /\ pc = "outside" /\ result = "raised" /\ error = "KeyError"
  /\ sent_keys = <<>> /\ action_state = EXECUTING /\ current_action = 11

\* the sum of the declared phases of an action definition
PhaseSum(action_data) ==
  action_data.phases.startup + action_data.phases.active + action_data.phases.recovery

\* every definition of the catalog that declares phases
C20_Catalog ==
  \A id \in Registered :
     DOMAIN action_map[id].phases # {}
     => /\ DOMAIN action_map[id].phases = {"startup", "active", "recovery"}
        /\ PhaseSum(action_map[id]) = action_map[id].duration

\* C20: every action definition of the catalog that declares a phase breakdown
\* has startup + active + recovery = duration, and so has the executing action.
C20_PhaseSum ==
  /\ C20_Catalog
  /\ (action_state = EXECUTING /\ DOMAIN action_map[current_action].phases # {})
     => PhaseSum(action_map[current_action]) = action_map[current_action].duration

\* jump is executing in the last tenth of its recovery
C20_Witness ==
  /\ action_state = EXECUTING /\ current_action = 5
  /\ Elapsed = PhaseSum(action_map[5]) - 1
  /\ get_current_animation_phase = RECOVERY

\* C26: the lifecycle never goes from EXECUTING to INTERRUPTED while the phase of
\* the executing action, computed at the time of the request, is Startup or Active.
C26_NoInterruptInStartupOrActive ==
  [][(action_state = EXECUTING /\ action_state' = INTERRUPTED)
     => get_current_animation_phase \notin {STARTUP, ACTIVE}
    ]_vars

\* Attack was requested in the Recovery of a Dodge (jump) and has interrupted it
C26_Witness ==
  /\ pc = "dispatch" /\ action_state = INTERRUPTED /\ current_action = None
  /\ action = 11 /\ current_animation_phase = RECOVERY /\ action_queue = <<>>
\* a step of the model in which _update_action_state has run to its end
RefreshStep ==
  \/ pc = "refresh" /\ pc' # pc /\ error' # "player_animation_id"
  \/ pc = "loop" /\ pc' = "loop_strategy"

\* C27: a refresh moves the lifecycle from EXECUTING to COMPLETED exactly when the
\* elapsed time has reached the duration of the action, or the action is a Combat
\* one and the animation id read differs from _last_animation_id, the baseline
\* stored at dispatch; for every other type no animation id is read and only the
\* elapsed time completes the action.
C27_RefreshCompletes ==
  [][(RefreshStep /\ action_state = EXECUTING)
     => /\ action_state' \in {EXECUTING, COMPLETED}
        /\ (action_state' = COMPLETED)
           <=> \/ Elapsed >= action_map[current_action].duration
               \/ /\ TypeOf(current_action) = COMBAT
                  /\ current_animation' # None
                  /\ current_animation' # last_animation_id
        /\ TypeOf(current_action) # COMBAT => current_animation' = None
    ]_vars

\* Attack, 1.5 s long, was completed in the wait loop before its time by an
\* animation id other than the one read at its dispatch
C27_Witness ==
  /\ pc = "loop_strategy" /\ action_state = COMPLETED /\ action = 11
  /\ last_animation_id # None /\ current_animation # None
  /\ current_animation # last_animation_id
  /\ now - current_time < action_map[11].duration
\* C29: when a step returns normally the lifecycle is not EXECUTING: an action
\* still executing when the wait loop ends is forced to COMPLETED with the current
\* action, the start time and the phase cleared, also when max_action_duration is
\* shorter than the duration of the action.
C29_NeverExecutingAtReturn ==
  /\ [](result = "returned"
        => /\ action_state # EXECUTING
           /\ current_action = None /\ action_start_time = None)
  /\ [][(pc = "loop" /\ pc' = "sample" /\ action_state = EXECUTING)
        => /\ action_state' = COMPLETED
           /\ current_action' = None /\ action_start_time' = None
           /\ current_animation_phase' = IDLE
       ]_vars

\* Jump, 0.8 s long, was dispatched with max_action_duration 0.5 s and the step
\* has returned before the 0.8 s have passed
C29_Witness ==
  /\ pc = "outside" /\ result = "returned" /\ sent_keys = <<5>>
  /\ max_action_duration < action_map[5].duration
  /\ now - last_step_time < action_map[5].duration
  /\ action_state = COMPLETED /\ current_action = None
\* the interruption rule accepts every request when the phase is Idle
C30_Rule ==
  \A ct \in ActionType, nt \in ActionType : interrupt_rule(ct, nt, IDLE)

\* C30: _get_current_animation_phase returns Idle when the lifecycle is not
\* EXECUTING, when the executing action declares no phases, and when the elapsed
\* time has reached the duration while the lifecycle is still EXECUTING; in the
\* last two cases _can_interrupt_action is true for every action of the catalog.
C30_IdlePhase ==
  /\ C30_Rule
  /\ action_state # EXECUTING => get_current_animation_phase = IDLE
  /\ (/\ action_state = EXECUTING
      /\ \/ DOMAIN action_map[current_action].phases = {}
         \/ Elapsed >= action_map[current_action].duration)
     => /\ get_current_animation_phase = IDLE
        /\ \A n \in Registered : can_interrupt_action(n)

\* a request is about to be admitted while Jump, left executing by a step that
\* raised, has used up its 0.8 s
C30_Witness ==
  /\ pc = "admit" /\ action_state = EXECUTING /\ current_action = 5
  /\ Elapsed >= action_map[5].duration /\ action \in Registered
\* C22: action_progress, in thousandths, of every observation lies in 0..1000; it
\* is 0 when no action executes, which is the case of every observation a step
\* returns, and min(elapsed / duration, 1.0) of the executing action in every
\* state in which an action of positive duration executes.
C22_ActionProgress ==
  /\ result = "returned"
     => /\ obs.action_progress \in 0..1000
        /\ obs.action_state # EXECUTING /\ obs.action_progress = 0
  /\ action_state # EXECUTING => get_observation.action_progress = 0
  /\ (action_state = EXECUTING /\ ~observation_divides_by_zero)
     => /\ get_observation.action_progress \in 0..1000
        /\ get_observation.action_progress
             = Min((Elapsed * 1000) \div action_map[current_action].duration, 1000)

\* the step that dispatched Attack has returned its observation
C22_Witness ==
  /\ pc = "outside" /\ result = "returned" /\ sent_keys = <<11>>
  /\ obs.action_state = COMPLETED /\ obs.action_progress = 0
  /\ obs.action_queue_length = 0
\* a catalog with a definition whose declared phases do not sum to its duration
CatalogMismatch(catalog) ==
  \E id \in DOMAIN catalog :
     /\ DOMAIN catalog[id].phases # {}
     /\ PhaseSum(catalog[id]) # catalog[id].duration

\* C21: a constructor call given a catalog with a definition whose phases do not
\* sum to its duration fails: it never gets past construction, so no environment
\* constructed with such a catalog exists or is stepped.
C21_MismatchFailsConstruction ==
  CatalogMismatch(action_map_arg) => pc = "new"
\* C28: with a clock that advances and client calls that return, the wait loop
\* of every step ends, and every step that has begun ends.
C28_StepTerminates ==
  /\ (pc = "loop") ~> (pc \in {"sample", "outside"})
  /\ (pc # "outside") ~> (pc = "outside")

\* the wait loop of a step that dispatched Attack has ended on its time bound,
\* after the clock has passed the bound of the other specifications
C28_Witness ==
  /\ pc = "sample" /\ sent_keys = <<11>> /\ max_wait = action_map[11].duration
  /\ now - start_wait >= max_wait /\ now > MaxTime
  /\ action_state = COMPLETED
\* the last n of the frames received since the buffer was cleared, oldest first,
\* the first frame received filling the positions that have no frame yet
LastFrames(n) ==
  [i \in 1..n |->
     IF Len(received) >= n THEN received[Len(received) - n + i]
     ELSE IF i <= n - Len(received) THEN received[1]
     ELSE received[i - (n - Len(received))]]

\* C23: after every observation() call of FrameStack and of DictFrameStack the
\* buffer holds exactly num_stack frames, and the output is the concatenation,
\* oldest first, of the last num_stack frames received since the last reset, the
\* first frame after the reset repeated where no frame exists yet; DictFrameStack
\* returns the other keys of the observation as they were.
C23_StackedFrames ==
  wrapper_result # "none"
  => /\ Len(frames) = num_stack /\ Len(dict_frames) = num_stack
     /\ frames = LastFrames(num_stack) /\ dict_frames = LastFrames(num_stack)
     /\ stacked = concatenate(LastFrames(num_stack))
     /\ dict_stacked = [inner_obs EXCEPT !.frame = concatenate(LastFrames(num_stack))]

\* a stack of three frames has received a fourth frame, which pushed the first
\* one out, after a reset whose frame differed from the next one
C23_Witness ==
  /\ wrapper_result = "step" /\ num_stack = 3 /\ Len(received) = 4
  /\ received[1] # received[2]
  /\ frames = SubSeq(received, 2, 4)
  /\ stacked = received[2] \o received[3] \o received[4]
\* C24: in each step of HPRefundWrapper with refund_player enabled and a positive
\* max HP in the observation, player_damage_taken is max(0, previous HP - current
\* HP) and never negative, and the player's HP is written, to max HP, in that step
\* if and only if that damage is positive.
C24_RefundOnDamage ==
  [][(wrapper_result' # "reset" /\ refund_player /\ inner_obs'.HeroMaxHp > 0)
     => /\ info'.player_damage_taken >= 0
        /\ prev_player_hp # None
           => info'.player_damage_taken = Max(0, prev_player_hp - inner_obs'.HeroHp)
        /\ (hp_writes' = <<inner_obs'.HeroMaxHp>>) <=> (info'.player_damage_taken > 0)
    ]_vars

\* C25: every value NormalizeMemoryAttributes writes for a key other than the
\* frame lies in [0, 1], in thousandths 0..1000, with a supplied range as with
\* the observed one, and the frame is passed through unchanged.
C25_NormalizedRange ==
  wrapper_result # "none"
  => /\ \A k \in Attrs : normalized[k] \in 0..1000
     /\ normalized["frame"] = inner_obs.frame
C32_SameActionUntouched ==
  [][(/\ pc = "admit" /\ pc' = "dispatch"
      /\ action_state = EXECUTING /\ action = current_action)
     => /\ action_queue' = action_queue
        /\ action_state' = EXECUTING
        /\ current_action' = current_action
        /\ action_start_time' = action_start_time
    ]_vars
\* C33: a pending request is never drained: the pending record changes only when
\* a request is rejected, which appends it, and when reset clears the tracking
\* fields, which empties it; the only input a step sends is the one of the action
\* it was called with, and the only action it starts is that one.
C33_PendingNeverDrained ==
  /\ [][action_queue' # action_queue
        => \/ /\ pc = "admit" /\ action_state = EXECUTING
              /\ ~can_interrupt_action(action)
              /\ action_queue' = Append(action_queue, action)
           \/ ResetStep /\ action_queue' = <<>>
       ]_vars
  /\ [][resets' # resets => action_queue' = <<>>]_vars
  /\ [][(pc = "dispatch" /\ pc' # pc)
        => /\ sent_keys' \in {sent_keys, <<action>>}
           /\ current_action' \in {current_action, action}
       ]_vars

\* Jump was rejected and is pending; a later step, called with forward, has
\* dispatched forward and Jump is still pending
C33_Witness ==
  /\ pc = "strategy" /\ action_queue = <<5>>
  /\ action = 1 /\ sent_keys = <<1>> /\ current_action = 1
DispatchedAbort ==
  /\ pc \in {"dispatch", "strategy", "loop", "loop_strategy"}
  /\ pc' = "outside" /\ result' = "raised"
  /\ error' \in {"player_animation_id", "set_game_speed"}
  /\ (pc = "dispatch" \/ sent_keys = <<action>>)

\* C35 as stated: a step aborted by a collaborator failure after its dispatch
\* leaves the lifecycle Executing with the dispatched action current.
C35_AbortLeavesExecuting ==
  [][DispatchedAbort => (action_state' = EXECUTING /\ current_action' = action)]_vars

\* C35: a step aborted by a collaborator failure after its dispatch leaves the
\* lifecycle Executing with the dispatched action current, unless the failing
\* call is the speed control of a wait iteration whose poll had just completed
\* the action, which leaves the lifecycle Completed with no current action; the
\* next step starts from the lifecycle the abort left.
C35_AbortAfterDispatch ==
  /\ [][DispatchedAbort
        => IF pc = "loop_strategy" /\ action_state = COMPLETED
           THEN action_state' = COMPLETED /\ current_action' = None
           ELSE action_state' = EXECUTING /\ current_action' = action
       ]_vars
  /\ [][(pc = "outside" /\ pc' = "refresh")
        => UNCHANGED <<action_state, current_action, action_start_time>>
       ]_vars

\* a step begins from the Executing lifecycle that an aborted step left, with
\* the action that step dispatched still current
C35_Witness ==
  /\ pc = "refresh" /\ failures = 1
  /\ error = "none" /\ action_state = EXECUTING /\ current_action \in Registered
  /\ action_queue = <<>>
\* C36: whenever step has returned normally under the pause or the adaptive
\* strategy, the last clock-speed directive sent to the game is 1.0: the game
\* is never left slowed while no action is executing.
C36_SpeedRestoredOnReturn ==
  (/\ pc = "outside" /\ result = "returned"
   /\ stepping_strategy \in {"pause", "adaptive"})
  => game_speed = 10
\* C37: every observation of a step that returned normally reports no current
\* action, a progress of 0.0, the idle animation phase and can_interrupt true;
\* the division of the elapsed time by the duration is never reached with a
\* zero duration.
C37_ReturnedObservationIdle ==
  /\ (pc = "outside" /\ result = "returned")
     => /\ obs.current_action = None
        /\ obs.action_progress = 0
        /\ obs.animation_phase = IDLE
        /\ obs.can_interrupt = TRUE
  /\ (pc = "sample" => ~observation_divides_by_zero)
\* a step called with the zero-duration no-op has returned its observation
C37_Witness ==
  /\ pc = "outside" /\ result = "returned" /\ failures = 0
  /\ sent_keys = <<>> /\ obs.action_state = COMPLETED
  /\ obs.current_action = None /\ obs.action_progress = 0
\* C38: a reset() during which every collaborator call succeeds completes
\* without raising, with the lifecycle idle, the queue empty and no last-sample
\* timestamp, and the step that follows starts from Idle.
C38_ResetReturns ==
  [][(ResetStep /\ failures' = failures)
     => /\ result' = "returned" /\ error' = "none"
        /\ action_state' = IDLE /\ action_queue' = <<>> /\ last_step_time' = None
    ]_vars
\* num_stack copies of the frame of the last observation
ResetFrames == [i \in 1..num_stack |-> inner_obs.frame]

\* C39: reset() of FrameStack and of DictFrameStack clears the buffer: the
\* stacked observation reset returns is num_stack copies of the reset frame, and
\* every frame of a stacked observation produced after a reset was received at
\* or after that reset, never before it.
C39_ResetClearsBuffer ==
  /\ wrapper_result = "reset"
     => /\ frames = ResetFrames /\ dict_frames = ResetFrames
        /\ stacked = concatenate(ResetFrames)
        /\ dict_stacked = [inner_obs EXCEPT !.frame = concatenate(ResetFrames)]
  /\ wrapper_result # "none"
     => /\ \A i \in 1..Len(frames) : \E j \in 1..Len(received) : frames[i] = received[j]
        /\ \A i \in 1..Len(dict_frames) :
             \E j \in 1..Len(received) : dict_frames[i] = received[j]
        /\ Len(stacked) = num_stack /\ Len(dict_stacked.frame) = num_stack

\* a reset cleared a three-frame buffer that held frames other than the reset
\* frame, and returned three copies of the reset frame
C39_Witness ==
  /\ wrapper_result = "reset" /\ num_stack = 3
  /\ cleared = {<<1>>} /\ inner_obs.frame = <<2>>
  /\ stacked = <<2, 2, 2>> /\ dict_stacked.frame = <<2, 2, 2>>
\* C40: HPRefundWrapper counts each HP loss exactly once: after every step of
\* an episode that began with reset(), the sum of the player_damage_taken values
\* reported equals the HP the player has lost.
C40_DamageCountedOnce ==
  [][(/\ refund_player /\ prev_player_hp # None
      /\ wrapper_result' # "reset" /\ hp_lost' = hp_lost)
     => hp_reported' = hp_lost'
    ]_vars
====
